---- MODULE Spec2Model ----
(***************************************************************************)
(* Model of package cism: a Machine driven by a StateTransitionTable.      *)
(* The machine's fields are the variables; every exported method is one    *)
(* action.  The variable ret records the last call: its arguments, the     *)
(* error it returned, what the guard answered and the lifecycle hooks it   *)
(* invoked, in order.  cpy is the slice the caller got from the last       *)
(* History call, and shared tells whether it shares its backing array with *)
(* the machine's log.  For the sends that are followed statement by        *)
(* statement, pc is the position of each goroutine inside Send, loc its     *)
(* local variables, and raced tells whether two sends have overlapped.      *)
(***************************************************************************)
EXTENDS Integers, Sequences, FiniteSets, TLC

\* Bounds of the model.
MaxState == 2
MaxEvent == 1
MaxHist == 3

StateIds == 0..MaxState
EventIds == 0..MaxEvent

VARIABLES States, curr, done, endevt, hist, initial, started, ret, cpy, shared,
          pc, loc, raced

machine == <<States, curr, done, endevt, hist, initial, started>>
inflight == <<pc, loc, raced>>
caller == <<cpy, shared, pc, loc, raced>>
vars == <<States, curr, done, endevt, hist, initial, started, ret, cpy, shared,
          pc, loc, raced>>

\* The goroutines that call Send.
Procs == {1, 2}

----------------------------------------------------------------------------
\* state.go

\* *Transition: null is the nil pointer; Guard, OnFail and OnSuccess tell
\* whether the hook is set (what a guard answers is the caller's business
\* and is chosen at each call).
Transition(guard, isFinal, onFail, onSuccess, to) ==
    [null |-> FALSE, Guard |-> guard, IsFinal |-> isFinal, OnFail |-> onFail,
     OnSuccess |-> onSuccess, To |-> to]

NilTransition ==
    [null |-> TRUE, Guard |-> FALSE, IsFinal |-> FALSE, OnFail |-> FALSE,
     OnSuccess |-> FALSE, To |-> 0]

\* A map with no keys (a nil map reads the same).
EmptyMap == <<>>

\* The table of the package documentation: Begin=0, Middle=1, End=2,
\* SetupDone=0, WorkComplete=1.
ExampleTable ==
    (0 :> (0 :> Transition(FALSE, FALSE, FALSE, TRUE, 1))) @@
    (1 :> (1 :> Transition(TRUE, TRUE, TRUE, TRUE, 2))) @@
    (2 :> EmptyMap)

\* The tables of the tests: a state with a nil event map, an event with a
\* nil transition, a guarded transition without hooks.
TestTable ==
    (0 :> ((0 :> NilTransition) @@ (1 :> Transition(TRUE, FALSE, FALSE, FALSE, 1)))) @@
    (1 :> EmptyMap)

\* A loop, and a final transition into a state that is not a key.
LoopTable ==
    (0 :> ((0 :> Transition(FALSE, FALSE, FALSE, FALSE, 0)) @@
           (1 :> Transition(TRUE, TRUE, FALSE, TRUE, 2))))

\* An unguarded final transition and a way back.
FinalTable ==
    (0 :> ((0 :> Transition(FALSE, TRUE, TRUE, TRUE, 1)) @@
           (1 :> Transition(TRUE, FALSE, TRUE, FALSE, 1)))) @@
    (1 :> (1 :> Transition(FALSE, FALSE, FALSE, TRUE, 0)))

Tables == {EmptyMap, ExampleTable, TestTable, LoopTable, FinalTable}

GetTransition_absent(stt, s, e) ==
    IF s \notin DOMAIN stt
    THEN NilTransition
    ELSE IF e \in DOMAIN stt[s] THEN stt[s][e]
         ELSE Transition(FALSE, FALSE, FALSE, FALSE, 0)

GetTransition(stt, s, e) ==
    IF s \notin DOMAIN stt
    THEN NilTransition
    ELSE IF e \in DOMAIN stt[s] THEN stt[s][e] ELSE NilTransition

\* The orders in which a range over a map with key set S can visit the keys.
Orders(S) ==
    {q \in [1..Cardinality(S) -> S] :
        \A i, j \in 1..Cardinality(S) : q[i] = q[j] => i = j}

GetEventsForState_outerKeys(stt, s) ==
    IF s \notin DOMAIN stt THEN {<<>>} ELSE Orders(DOMAIN stt)

\* The results the call can return: the keys of stt[s], appended in the
\* order of the range (nil is the empty slice).
GetEventsForState(stt, s) ==
    IF s \notin DOMAIN stt THEN {<<>>} ELSE Orders(DOMAIN stt[s])

GetStatesForEvent_noTest(stt, e) ==
    IF Cardinality(DOMAIN stt) = 0 THEN {<<>>} ELSE Orders(DOMAIN stt)

\* The results the call can return: the states visited in the order of the
\* outer range, each appended when the inner range meets e.
GetStatesForEvent(stt, e) ==
    IF Cardinality(DOMAIN stt) = 0
    THEN {<<>>}
    ELSE LET HasEvent(s) == e \in DOMAIN stt[s]
         IN {SelectSeq(q, HasEvent) : q \in Orders(DOMAIN stt)}

----------------------------------------------------------------------------
\* errors

Err(type, s, e, p) == [type |-> type, State |-> s, Event |-> e, FinalEvent |-> p]

NoErr == Err("nil", -1, -1, 0)
ErrMissingStates == Err("ErrMissingStates", -1, -1, 0)
ErrStateNotDefined(s) == Err("ErrStateNotDefined", s, -1, 0)
\* FinalEvent is the machine's endevt pointer itself.
ErrMachineStopped(p) == Err("ErrMachineStopped", -1, -1, p)
ErrMachineStarted == Err("ErrMachineStarted", -1, -1, 0)
ErrMissingTransition(s, e) == Err("ErrMissingTransition", s, e, 0)
ErrMachineNotStarted == Err("ErrMachineNotStarted", -1, -1, 0)
ErrMachineNotStopped == Err("ErrMachineNotStopped", -1, -1, 0)

----------------------------------------------------------------------------
\* machine

HistoryRecord(s, e) == [State |-> s, Event |-> e]

\* endevt is a pointer into the history log: 0 is nil, i is &hist[i].Event.
Deref(h, p) == IF p = 0 THEN -1 ELSE h[p].Event

Call(fn, s, e) == [fn |-> fn, s |-> s, e |-> e]

Ret(op, s, e, err, guard, calls) ==
    [op |-> op, s |-> s, e |-> e, err |-> err, guard |-> guard, calls |-> calls,
     val |-> <<>>]

\* The record of a call that returns a value and no error.
RetVal(op, s, e, val) ==
    [op |-> op, s |-> s, e |-> e, err |-> NoErr, guard |-> "none", calls |-> <<>>,
     val |-> val]

\* The locals of a goroutine that is not inside Send.
NoLocals ==
    [e |-> -1, tran |-> NilTransition, currstate |-> -1, h |-> <<>>,
     guard |-> "none", calls |-> <<>>]

Init ==
    /\ States \in Tables
    /\ curr = 0
    /\ done = FALSE
    /\ endevt = 0
    /\ hist = <<>>
    /\ initial = 0
    /\ started = FALSE
    /\ ret = Ret("new", -1, -1, NoErr, "none", <<>>)
    /\ cpy = <<>>
    /\ shared = FALSE
    /\ pc = [p \in Procs |-> "idle"]
    /\ loc = [p \in Procs |-> NoLocals]
    /\ raced = FALSE

\* The checks of Start, in the order of the code.
StartErr_stoppedFirst(s) ==
    IF Cardinality(DOMAIN States) = 0 THEN ErrMissingStates
    ELSE IF done THEN ErrMachineStopped(endevt)
    ELSE IF s \notin DOMAIN States THEN ErrStateNotDefined(s)
    ELSE IF started THEN ErrMachineStarted
    ELSE NoErr

StartErr_startedFirst(s) ==
    IF Cardinality(DOMAIN States) = 0 THEN ErrMissingStates
    ELSE IF s \notin DOMAIN States THEN ErrStateNotDefined(s)
    ELSE IF started THEN ErrMachineStarted
    ELSE IF done THEN ErrMachineStopped(endevt)
    ELSE NoErr

StartErr(s) ==
    IF Cardinality(DOMAIN States) = 0 THEN ErrMissingStates
    ELSE IF s \notin DOMAIN States THEN ErrStateNotDefined(s)
    ELSE IF done THEN ErrMachineStopped(endevt)
    ELSE IF started THEN ErrMachineStarted
    ELSE NoErr

StartOk_noInitial(s) ==
    /\ curr' = s
    /\ done' = FALSE
    /\ started' = TRUE
    /\ UNCHANGED <<States, endevt, hist, initial>>

StartOk_stops(s) ==
    /\ curr' = s
    /\ done' = TRUE
    /\ initial' = s
    /\ started' = TRUE
    /\ UNCHANGED <<States, endevt, hist>>

StartOk(s) ==
    /\ curr' = s
    /\ done' = FALSE
    /\ initial' = s
    /\ started' = TRUE
    /\ UNCHANGED <<States, endevt, hist>>

Start_assignsFirst(s) ==
    LET err == StartErr(s) IN
    /\ ret' = Ret("Start", s, -1, err, "none", <<>>)
    /\ IF err # NoErr
       THEN curr' = s /\ UNCHANGED <<States, done, endevt, hist, initial, started>>
       ELSE StartOk(s)
    /\ UNCHANGED caller

Start(s) ==
    LET err == StartErr(s) IN
    /\ ret' = Ret("Start", s, -1, err, "none", <<>>)
    /\ IF err # NoErr THEN UNCHANGED machine ELSE StartOk(s)
    /\ UNCHANGED caller

\* The checks of Send, in the order of the code.
SendErr_stoppedFirst(e) ==
    IF done THEN ErrMachineStopped(endevt)
    ELSE IF ~started THEN ErrMachineNotStarted
    ELSE IF GetTransition(States, curr, e).null THEN ErrMissingTransition(curr, e)
    ELSE NoErr

SendErr_noStopped(e) ==
    IF ~started THEN ErrMachineNotStarted
    ELSE IF GetTransition(States, curr, e).null THEN ErrMissingTransition(curr, e)
    ELSE NoErr

SendErr(e) ==
    IF ~started THEN ErrMachineNotStarted
    ELSE IF done THEN ErrMachineStopped(endevt)
    ELSE IF GetTransition(States, curr, e).null THEN ErrMissingTransition(curr, e)
    ELSE NoErr

stop_noEvent(h) ==
    /\ endevt' = endevt
    /\ done' = TRUE

stop_flips(h) ==
    /\ endevt' = IF Len(h) > 0 THEN Len(h) ELSE endevt
    /\ done' = ~done

\* h is the history log at the time of the call.
stop(h) ==
    /\ endevt' = IF Len(h) > 0 THEN Len(h) ELSE endevt
    /\ done' = TRUE

GuardAllows_nilBlocks(tran, g) == tran.Guard /\ g

GuardAllows_always(tran, g) == TRUE

\* tran.Guard == nil || tran.Guard(currstate, e); g is the guard's answer.
GuardAllows(tran, g) == ~tran.Guard \/ g

GuardCalls(tran, currstate, e) ==
    IF tran.Guard THEN <<Call("Guard", currstate, e)>> ELSE <<>>

GuardAnswer(tran, g) ==
    IF ~tran.Guard THEN "nil" ELSE IF g THEN "true" ELSE "false"

append_replaces(h, r) == <<r>>

\* The built-in append, on the history log.
append(h, r) == Append(h, r)

transition(tran, e, g) ==
    LET currstate == curr IN
    IF GuardAllows(tran, g)
    THEN /\ Len(hist) < MaxHist
         /\ hist' = append(hist, HistoryRecord(currstate, e))
         /\ curr' = tran.To
         /\ IF tran.IsFinal THEN stop(hist') ELSE UNCHANGED <<done, endevt>>
         /\ ret' = Ret("Send", -1, e, NoErr, GuardAnswer(tran, g),
                       GuardCalls(tran, currstate, e) \o
                       (IF tran.OnSuccess
                        THEN <<Call("OnSuccess", currstate, e)>> ELSE <<>>))
         /\ UNCHANGED <<States, initial, started>>
    ELSE /\ ret' = Ret("Send", -1, e, NoErr, GuardAnswer(tran, g),
                       GuardCalls(tran, currstate, e) \o
                       (IF tran.OnFail
                        THEN <<Call("OnFail", currstate, e)>> ELSE <<>>))
         /\ UNCHANGED machine

Send(e) ==
    LET err == SendErr(e) IN
    /\ IF err # NoErr
       THEN /\ ret' = Ret("Send", -1, e, err, "none", <<>>)
            /\ UNCHANGED machine
       ELSE \E g \in BOOLEAN : transition(GetTransition(States, curr, e), e, g)
    /\ UNCHANGED caller

Stop ==
    /\ stop(hist)
    /\ ret' = Ret("Stop", -1, -1, NoErr, "none", <<>>)
    /\ UNCHANGED <<States, curr, hist, initial, started>>
    /\ UNCHANGED caller

ResetErr_startedOnly == IF ~(done /\ started) THEN ErrMachineNotStopped ELSE NoErr

ResetErr == IF ~done THEN ErrMachineNotStopped ELSE NoErr

ResetOk_keepsCurr ==
    /\ done' = FALSE
    /\ endevt' = 0
    /\ hist' = <<>>
    /\ started' = FALSE
    /\ UNCHANGED <<States, initial, curr>>

ResetOk_keepsEndevt ==
    /\ done' = FALSE
    /\ hist' = <<>>
    /\ curr' = initial
    /\ started' = FALSE
    /\ UNCHANGED <<States, initial, endevt>>

ResetOk ==
    /\ done' = FALSE
    /\ endevt' = 0
    /\ hist' = <<>>
    /\ curr' = initial
    /\ started' = FALSE
    /\ UNCHANGED <<States, initial>>

Reset ==
    LET err == ResetErr IN
    /\ ret' = Ret("Reset", -1, -1, err, "none", <<>>)
    /\ IF err # NoErr THEN UNCHANGED machine ELSE ResetOk
    /\ UNCHANGED caller

Current == curr

\* make + copy: a new sequence of the same length, element by element.
History == [i \in 1..Len(hist) |-> hist[i]]

HistoryAliases_returnsLog == TRUE

\* make allocates a new backing array: the returned slice does not share
\* the one of the log.
HistoryAliases == FALSE

CurrentCall ==
    /\ ret' = Ret("Current", Current, -1, NoErr, "none", <<>>)
    /\ UNCHANGED machine
    /\ UNCHANGED caller

HistoryCall ==
    /\ ret' = Ret("History", -1, -1, NoErr, "none", <<>>)
    /\ cpy' = History
    /\ shared' = HistoryAliases
    /\ UNCHANGED machine
    /\ UNCHANGED inflight

GetTransitionCall(s, e) ==
    /\ ret' = RetVal("GetTransition", s, e, GetTransition(States, s, e))
    /\ UNCHANGED machine
    /\ UNCHANGED caller

GetEventsForStateCall(s) ==
    /\ \E r \in GetEventsForState(States, s) :
           ret' = RetVal("GetEventsForState", s, -1, r)
    /\ UNCHANGED machine
    /\ UNCHANGED caller

GetStatesForEventCall(e) ==
    /\ \E r \in GetStatesForEvent(States, e) :
           ret' = RetVal("GetStatesForEvent", -1, e, r)
    /\ UNCHANGED machine
    /\ UNCHANGED caller

Next ==
    \/ \E s \in StateIds : Start(s)
    \/ \E e \in EventIds : Send(e)
    \/ Stop
    \/ Reset
    \/ CurrentCall
    \/ HistoryCall
    \/ \E s \in StateIds, e \in EventIds : GetTransitionCall(s, e)
    \/ \E s \in StateIds : GetEventsForStateCall(s)
    \/ \E e \in EventIds : GetStatesForEventCall(e)

Spec == Init /\ [][Next]_vars

\* The caller writes record r into element i of the slice it holds; the
\* write reaches the log when the two share their backing array.
WriteCopy(i, r) ==
    /\ i \in 1..Len(cpy)
    /\ cpy' = [cpy EXCEPT ![i] = r]
    /\ hist' = IF shared /\ i <= Len(hist) THEN [hist EXCEPT ![i] = r] ELSE hist
    /\ ret' = Ret("Write", -1, -1, NoErr, "none", <<>>)
    /\ UNCHANGED <<States, curr, done, endevt, initial, started, shared>>
    /\ UNCHANGED inflight

\* The records the caller writes: the lowest and the highest one.
Written == {HistoryRecord(0, 0), HistoryRecord(MaxState, MaxEvent)}

NextCopy ==
    \/ Next
    \/ \E i \in 1..MaxHist, r \in Written : WriteCopy(i, r)

\* The machine together with a caller that writes into the history it got.
SpecCopy == Init /\ [][NextCopy]_vars

\* The caller writes event x through the FinalEvent pointer of the
\* ErrMachineStopped it has just been returned: the pointer is the machine's
\* endevt, the address of the Event field of a record of the log.
WriteFinalEvent(x) ==
    /\ ret.err.type = "ErrMachineStopped"
    /\ ret.err.FinalEvent # 0
    /\ hist' = [hist EXCEPT ![ret.err.FinalEvent].Event = x]
    /\ ret' = Ret("WriteEvent", -1, x, NoErr, "none", <<>>)
    /\ UNCHANGED <<States, curr, done, endevt, initial, started>>
    /\ UNCHANGED caller

NextAlias ==
    \/ Next
    \/ \E x \in EventIds : WriteFinalEvent(x)

\* The machine together with a caller that writes through the terminal
\* event of the errors it got.
SpecAlias == Init /\ [][NextAlias]_vars

----------------------------------------------------------------------------
\* Send, statement by statement, for goroutine p.

AllIdle == \A p \in Procs : pc[p] = "idle"

\* The call returns err (with the guard's answer and the hooks invoked).
Return(p, err) ==
    /\ ret' = Ret("Send", -1, loc[p].e, err, loc[p].guard, loc[p].calls)
    /\ pc' = [pc EXCEPT ![p] = "idle"]
    /\ loc' = [loc EXCEPT ![p] = NoLocals]

Goto(p, at) == pc' = [pc EXCEPT ![p] = at]

SendBegin(p, e) ==
    /\ pc[p] = "idle"
    /\ Goto(p, "check")
    /\ loc' = [loc EXCEPT ![p] = [NoLocals EXCEPT !.e = e]]
    /\ raced' = (raced \/ \E q \in Procs \ {p} : pc[q] # "idle")
    /\ UNCHANGED <<machine, ret, cpy, shared>>

\* if !m.started ... if m.done ...
SendCheck(p) ==
    /\ pc[p] = "check"
    /\ IF ~started THEN Return(p, ErrMachineNotStarted)
       ELSE IF done THEN Return(p, ErrMachineStopped(endevt))
       ELSE Goto(p, "lookup") /\ UNCHANGED <<ret, loc>>
    /\ UNCHANGED <<machine, cpy, shared, raced>>

\* tran := m.States.GetTransition(m.curr, e)
SendLookup(p) ==
    /\ pc[p] = "lookup"
    /\ LET tran == GetTransition(States, curr, loc[p].e) IN
       IF tran.null
       THEN Return(p, ErrMissingTransition(curr, loc[p].e))
       ELSE /\ Goto(p, "enter")
            /\ loc' = [loc EXCEPT ![p].tran = tran]
            /\ UNCHANGED ret
    /\ UNCHANGED <<machine, cpy, shared, raced>>

\* currstate := m.curr
TransitionEnter(p) ==
    /\ pc[p] = "enter"
    /\ Goto(p, "guard")
    /\ loc' = [loc EXCEPT ![p].currstate = curr]
    /\ UNCHANGED <<machine, ret, cpy, shared, raced>>

\* if tran.Guard == nil || tran.Guard(currstate, e)
GuardStep(p) ==
    /\ pc[p] = "guard"
    /\ \E g \in BOOLEAN :
        LET l == loc[p] IN
        /\ loc' = [loc EXCEPT ![p].guard = GuardAnswer(l.tran, g),
                              ![p].calls = GuardCalls(l.tran, l.currstate, l.e)]
        /\ Goto(p, IF GuardAllows(l.tran, g) THEN "readhist" ELSE "fail")
    /\ UNCHANGED <<machine, ret, cpy, shared, raced>>

\* append(m.hist, ...): the read of m.hist
ReadHist(p) ==
    /\ pc[p] = "readhist"
    /\ Len(hist) < MaxHist
    /\ Goto(p, "writehist")
    /\ loc' = [loc EXCEPT ![p].h = hist]
    /\ UNCHANGED <<machine, ret, cpy, shared, raced>>

\* m.hist = append(...): the write of m.hist
WriteHist(p) ==
    /\ pc[p] = "writehist"
    /\ hist' = append(loc[p].h, HistoryRecord(loc[p].currstate, loc[p].e))
    /\ Goto(p, "setcurr")
    /\ UNCHANGED <<States, curr, done, endevt, initial, started>>
    /\ UNCHANGED <<ret, cpy, shared, loc, raced>>

SetCurr_stays(p) ==
    /\ pc[p] = "setcurr"
    /\ curr' = curr
    /\ Goto(p, "success")
    /\ UNCHANGED <<States, done, endevt, hist, initial, started>>
    /\ UNCHANGED <<ret, cpy, shared, loc, raced>>

\* m.curr = tran.To
SetCurr(p) ==
    /\ pc[p] = "setcurr"
    /\ curr' = loc[p].tran.To
    /\ Goto(p, "success")
    /\ UNCHANGED <<States, done, endevt, hist, initial, started>>
    /\ UNCHANGED <<ret, cpy, shared, loc, raced>>

CallOnSuccess_stopsFirst(p) ==
    /\ pc[p] = "success"
    /\ IF loc[p].tran.IsFinal THEN stop(hist) ELSE UNCHANGED <<done, endevt>>
    /\ IF loc[p].tran.OnSuccess
       THEN /\ Goto(p, "inSuccess")
            /\ loc' = [loc EXCEPT ![p].calls =
                          Append(@, Call("OnSuccess", loc[p].currstate, loc[p].e))]
       ELSE Goto(p, "final") /\ UNCHANGED loc
    /\ UNCHANGED <<States, curr, hist, initial, started>>
    /\ UNCHANGED <<ret, cpy, shared, raced>>

\* if tran.OnSuccess != nil { tran.OnSuccess(currstate, e) }: the call
CallOnSuccess(p) ==
    /\ pc[p] = "success"
    /\ IF loc[p].tran.OnSuccess
       THEN /\ Goto(p, "inSuccess")
            /\ loc' = [loc EXCEPT ![p].calls =
                          Append(@, Call("OnSuccess", loc[p].currstate, loc[p].e))]
       ELSE Goto(p, "final") /\ UNCHANGED loc
    /\ UNCHANGED <<machine, ret, cpy, shared, raced>>

\* OnSuccess returns.
ReturnOnSuccess(p) ==
    /\ pc[p] = "inSuccess"
    /\ Goto(p, "final")
    /\ UNCHANGED <<machine, ret, cpy, shared, loc, raced>>

\* if tran.IsFinal { m.stop() }, and Send returns nil
Final(p) ==
    /\ pc[p] = "final"
    /\ IF loc[p].tran.IsFinal THEN stop(hist) ELSE UNCHANGED <<done, endevt>>
    /\ Return(p, NoErr)
    /\ UNCHANGED <<States, curr, hist, initial, started>>
    /\ UNCHANGED <<cpy, shared, raced>>

\* else if tran.OnFail != nil { tran.OnFail(currstate, e) }, and Send
\* returns nil
Fail(p) ==
    /\ pc[p] = "fail"
    /\ ret' = Ret("Send", -1, loc[p].e, NoErr, loc[p].guard,
                  loc[p].calls \o
                  (IF loc[p].tran.OnFail
                   THEN <<Call("OnFail", loc[p].currstate, loc[p].e)>> ELSE <<>>))
    /\ pc' = [pc EXCEPT ![p] = "idle"]
    /\ loc' = [loc EXCEPT ![p] = NoLocals]
    /\ UNCHANGED <<machine, cpy, shared, raced>>

SendSteps(p) ==
    \/ \E e \in EventIds : SendBegin(p, e)
    \/ SendCheck(p)
    \/ SendLookup(p)
    \/ TransitionEnter(p)
    \/ GuardStep(p)
    \/ ReadHist(p)
    \/ WriteHist(p)
    \/ SetCurr(p)
    \/ CallOnSuccess(p)
    \/ ReturnOnSuccess(p)
    \/ Final(p)
    \/ Fail(p)

\* The other calls, made while no send is in progress.
Sequential ==
    /\ AllIdle
    /\ \/ \E s \in StateIds : Start(s)
       \/ Stop
       \/ Reset

NextSteps ==
    \/ Sequential
    \/ SendSteps(1)

\* One goroutine: every send runs to its end before the next call.
SpecSteps == Init /\ [][NextSteps]_vars

NextRace ==
    \/ Sequential
    \/ \E p \in Procs : SendSteps(p)

\* Two goroutines that send without synchronisation.
SpecRace == Init /\ [][NextRace]_vars

----------------------------------------------------------------------------
\* Vocabulary of the properties.

CountCalls(calls, fn) == Cardinality({i \in DOMAIN calls : calls[i].fn = fn})

Running == started /\ ~done

\* The table holds a transition for (s, e).
Defined(s, e) ==
    /\ s \in DOMAIN States
    /\ e \in DOMAIN States[s]
    /\ ~States[s][e].null

PassStep(e) ==
    /\ Running
    /\ ~GetTransition(States, curr, e).null
    /\ ret'.op = "Send" /\ ret'.e = e
    /\ ret'.guard \in {"nil", "true"}

FailStep(e) ==
    /\ Running
    /\ ~GetTransition(States, curr, e).null
    /\ ret'.op = "Send" /\ ret'.e = e
    /\ ret'.guard = "false"

\* The last history record names a final transition of the table.
LastFinal(e) ==
    /\ Len(hist) > 0
    /\ hist[Len(hist)].Event = e
    /\ LET tran == GetTransition(States, hist[Len(hist)].State, e)
       IN ~tran.null /\ tran.IsFinal

\* Started and stopped, with e as the terminal event.
StoppedWith(e) == started /\ done /\ endevt # 0 /\ Deref(hist, endevt) = e

FinalStopped(e) == StoppedWith(e) /\ LastFinal(e)

----------------------------------------------------------------------------
C2_GuardFail ==
    [][\A e \in EventIds :
        LET tran == GetTransition(States, curr, e) IN
        FailStep(e) =>
            /\ ret'.err = NoErr
            /\ CountCalls(ret'.calls, "OnFail") = (IF tran.OnFail THEN 1 ELSE 0)
            /\ CountCalls(ret'.calls, "OnSuccess") = 0
            /\ Current' = Current
            /\ History' = History
            /\ started' /\ ~done'
            /\ UNCHANGED machine]_vars

C2_Witness ==
    /\ ret.op = "Send" /\ ret.err = NoErr /\ ret.guard = "false"
    /\ CountCalls(ret.calls, "OnFail") = 1
    /\ GetTransition(States, curr, ret.e).IsFinal
    /\ Running

\* C3 as stated: once a final transition has stopped the machine with event
\* e, every further send fails with MachineStopped carrying e, that is, the
\* machine stays stopped with terminal event e for ever.
C3_EveryFurtherSend ==
    [][\A e \in EventIds : FinalStopped(e) => FinalStopped(e)']_vars

\* C3 amended: a send that applies a final transition with event e leaves the
\* machine stopped with terminal event e; until the machine is reset it stays
\* so, and every send fails with MachineStopped carrying e and changes
\* nothing.
C3_StoppedUntilReset ==
    [][\A e \in EventIds :
        /\ (PassStep(e) /\ GetTransition(States, curr, e).IsFinal) => FinalStopped(e)'
        /\ (FinalStopped(e) /\ ret'.op = "Send") =>
               /\ ret'.err.type = "ErrMachineStopped"
               /\ Deref(hist', ret'.err.FinalEvent) = e
               /\ UNCHANGED machine
        /\ (FinalStopped(e) /\ ret'.op # "Reset") => FinalStopped(e)']_vars

C3_Witness ==
    /\ ret.op = "Send" /\ ret.err.type = "ErrMachineStopped"
    /\ FinalStopped(ret.e)
    /\ Deref(hist, ret.err.FinalEvent) = ret.e

\* C4: on a running machine, a send of an event without a transition from the
\* current state fails with MissingTransition carrying the current state and
\* the event, invokes no hook and changes nothing.
C4_MissingTransition ==
    [][\A e \in EventIds :
        (Running /\ ~Defined(curr, e)
           /\ ret'.op = "Send" /\ ret'.e = e) =>
            /\ ret'.err = ErrMissingTransition(curr, e)
            /\ ret'.calls = <<>>
            /\ UNCHANGED machine]_vars

C4_Witness ==
    /\ ret.op = "Send" /\ ret.err.type = "ErrMissingTransition"
    /\ ret.err.State = curr /\ ret.err.Event = ret.e
    /\ curr \in DOMAIN States
    /\ ret.e \notin DOMAIN States[curr]
    /\ Len(hist) > 0

\* C5: while the machine is not started its history is empty, and every send
\* fails with MachineNotStarted.
C5_NotStarted ==
    [][~started =>
        /\ History = <<>>
        /\ ret'.op = "Send" => (ret'.err = ErrMachineNotStarted /\ UNCHANGED machine)]_vars

\* After a reset, before the next start.
C5_Witness ==
    /\ ret.op = "Send" /\ ret.err.type = "ErrMachineNotStarted"
    /\ ~started /\ ~done
    /\ initial # 0

\* C6 as stated: whenever the stopped flag is set, a send fails with
\* MachineStopped carrying the recorded terminal event.
C6_StoppedFlag ==
    [][(done /\ ret'.op = "Send") => ret'.err = ErrMachineStopped(endevt)]_vars

\* C6 amended: whenever the machine has been started and its stopped flag is
\* set, a send fails with MachineStopped carrying the recorded terminal event
\* (none when the history was empty at the stop).
C6_StartedAndStopped ==
    [][(started /\ done /\ ret'.op = "Send") =>
        /\ ret'.err = ErrMachineStopped(endevt)
        /\ (ret'.err.FinalEvent = 0) = (hist = <<>>)
        /\ hist # <<>> => Deref(hist', ret'.err.FinalEvent) = hist[Len(hist)].Event]_vars

C6_Witness ==
    /\ ret.op = "Send" /\ ret.err.type = "ErrMachineStopped"
    /\ started /\ done
    /\ ret.err.FinalEvent = 0

\* C7 as stated: for every table, the empty one included, start of a state
\* that is not a key of the table fails with StateNotDefined.
C7_AnyTable ==
    [][\A s \in StateIds :
        (s \notin DOMAIN States /\ ret'.op = "Start" /\ ret'.s = s) =>
            ret'.err = ErrStateNotDefined(s)]_vars

\* C7 amended: for every table that is not empty, start of a state that is
\* not a key of the table fails with StateNotDefined carrying that state.
C7_NonEmptyTable ==
    [][\A s \in StateIds :
        (DOMAIN States # {} /\ s \notin DOMAIN States
           /\ ret'.op = "Start" /\ ret'.s = s) =>
            /\ ret'.err = ErrStateNotDefined(s)
            /\ UNCHANGED machine]_vars

C7_Witness ==
    /\ ret.op = "Start" /\ ret.err.type = "ErrStateNotDefined"
    /\ ret.err.State = ret.s
    /\ DOMAIN States # {} /\ ret.s \notin DOMAIN States
    /\ done

\* C8 as stated: whenever the machine is stopped, start of any state fails
\* with MachineStopped.
C8_AnyState ==
    [][(done /\ ret'.op = "Start") => ret'.err = ErrMachineStopped(endevt)]_vars

\* C8 amended: whenever the machine is stopped, start of a state that is a
\* key of the table fails with MachineStopped carrying the recorded terminal
\* event, if there is one.
C8_DefinedState ==
    [][\A s \in StateIds :
        (done /\ s \in DOMAIN States /\ ret'.op = "Start" /\ ret'.s = s) =>
            /\ ret'.err = ErrMachineStopped(endevt)
            /\ UNCHANGED machine]_vars

C8_Witness ==
    /\ ret.op = "Start" /\ ret.err.type = "ErrMachineStopped"
    /\ done /\ started
    /\ ret.err.FinalEvent # 0
    /\ ret.s \in DOMAIN States

\* C9: a start that returns no error sets the current and the initial state
\* to its argument, leaves the machine started and not stopped, keeps the
\* history and invokes no hook.
C9_StartSucceeds ==
    [][\A s \in StateIds :
        (ret'.op = "Start" /\ ret'.s = s /\ ret'.err = NoErr) =>
            /\ ~started
            /\ curr' = s /\ initial' = s
            /\ started' /\ ~done'
            /\ hist' = hist
            /\ ret'.calls = <<>>]_vars

C9_Witness ==
    /\ ret.op = "Start" /\ ret.err = NoErr
    /\ curr = ret.s /\ initial = ret.s
    /\ ret.s # 0
    /\ Running /\ hist = <<>>

C11_RoundTrip ==
    [][/\ (started /\ ret'.op = "Reset" /\ ret'.err = NoErr) =>
            /\ Current' = initial /\ initial' = initial
            /\ History' = <<>>
            /\ endevt' = 0
            /\ ~started' /\ ~done'
            /\ StartErr(initial)' = NoErr
       /\ (ret.op = "Reset" /\ ret.err = NoErr /\ initial \in DOMAIN States
             /\ ret'.op = "Start" /\ ret'.s = initial) =>
            /\ ret'.err = NoErr
            /\ curr' = initial /\ started']_vars

\* After start(s), sends that moved the machine, a stop and the reset.
C11_Witness ==
    /\ ret.op = "Reset" /\ ret.err = NoErr
    /\ curr = initial /\ initial # 0
    /\ hist = <<>> /\ endevt = 0
    /\ ~started /\ ~done

\* C12 as stated: a stop of a stopped machine changes nothing, and after a
\* stop every start fails with MachineStopped.
C12_AnyStart ==
    [][/\ (done /\ ret'.op = "Stop") => UNCHANGED machine
       /\ (done /\ ret.op = "Stop" /\ ret'.op = "Start") =>
              ret'.err.type = "ErrMachineStopped"]_vars

\* C12 amended: a stop of a stopped machine (so also a second stop in
\* succession) changes no field of the machine, and after one stop or two a
\* start of a state that is a key of the table fails with MachineStopped.
C12_StopIdempotent ==
    [][/\ (done /\ ret'.op = "Stop") => UNCHANGED machine
       /\ \A s \in StateIds :
            (done /\ ret.op = "Stop" /\ s \in DOMAIN States
               /\ ret'.op = "Start" /\ ret'.s = s) =>
              /\ ret'.err = ErrMachineStopped(endevt)
              /\ UNCHANGED machine]_vars

C12_Witness ==
    /\ ret.op = "Stop"
    /\ done /\ started
    /\ Len(hist) = 2 /\ endevt = 2
    /\ \A s \in DOMAIN States : StartErr(s).type = "ErrMachineStopped"

\* C13: a terminal event is recorded only while the machine is stopped; while
\* it is stopped the terminal event is absent exactly when the history is
\* empty, and otherwise it is the event of the last history record.
C13_TerminalEvent ==
    /\ endevt # 0 => done
    /\ done => /\ (endevt = 0) = (hist = <<>>)
               /\ hist # <<>> => /\ endevt = Len(hist)
                                 /\ Deref(hist, endevt) = hist[Len(hist)].Event

\* Stopped in a run after a reset, with a history of that run.
C13_Witness ==
    /\ done /\ endevt # 0
    /\ Len(hist) = 1
    /\ initial # 0
    /\ curr # initial
    /\ Deref(hist, endevt) = hist[1].Event

\* C14 as stated: the stopped flag becomes set only on a running machine.
C14_OnlyFromRunning ==
    [][(~done /\ done') => started]_vars

\* C14 amended: the stopped flag becomes set only by an explicit stop, in
\* any state and also on a machine that was never started, or by a send on a
\* running machine that applies a final transition whose guard passed.
C14_StopOrFinal ==
    [][(~done /\ done') =>
        \/ ret'.op = "Stop"
        \/ /\ ret'.op = "Send" /\ ret'.err = NoErr
           /\ Running
           /\ ret'.guard \in {"nil", "true"}
           /\ Defined(curr, ret'.e)
           /\ States[curr][ret'.e].IsFinal]_vars

\* Stopped by an explicit stop without ever having been started.
C14_Witness ==
    /\ ret.op = "Stop"
    /\ done /\ ~started
    /\ initial = 0 /\ hist = <<>> /\ endevt = 0
    /\ DOMAIN States # {}

\* C15: whenever start, send or reset returns an error, no field of the
\* machine has changed and no hook was invoked.
C15_ErrorChangesNothing ==
    [][ret'.err # NoErr =>
        /\ ret'.op \in {"Start", "Send", "Reset"}
        /\ UNCHANGED machine
        /\ ret'.calls = <<>>]_vars

C15_Witness ==
    /\ ret.op = "Start" /\ ret.err.type = "ErrMachineStarted"
    /\ ret.s # curr /\ ret.s # initial
    /\ Len(hist) > 0

\* C16: the history record appended by a send whose guard passes holds the
\* destination state of the applied transition together with the event.
C16_RecordHoldsDestination ==
    [][\A e \in EventIds :
        PassStep(e) =>
            /\ Len(hist') = Len(hist) + 1
            /\ hist'[Len(hist')] = HistoryRecord(States[curr][e].To, e)]_vars

\* C17: across every operation other than a successful reset the history
\* before is a prefix of the history after; a send whose guard passes extends
\* it by exactly one record, and no other operation changes it.
C17_AppendOnly ==
    [][~(ret'.op = "Reset" /\ ret'.err = NoErr) =>
        /\ Len(hist') >= Len(hist)
        /\ SubSeq(hist', 1, Len(hist)) = hist
        /\ IF ret'.op = "Send" /\ ret'.err = NoErr /\ ret'.guard \in {"nil", "true"}
           THEN Len(hist') = Len(hist) + 1
           ELSE hist' = hist]_vars

C17_Witness ==
    /\ ret.op = "Send" /\ ret.err = NoErr /\ ret.guard \in {"nil", "true"}
    /\ Len(hist) = MaxHist
    /\ hist[1] # hist[MaxHist]

\* C18: history() changes no field of the machine and returns the records of
\* the log in their order; a later write of the caller into the returned
\* sequence changes neither the machine nor what history() returns.
C18_HistoryIsACopy ==
    [][/\ ret'.op = "History" =>
            /\ UNCHANGED machine
            /\ Len(cpy') = Len(hist)
            /\ \A i \in 1..Len(hist) : cpy'[i] = hist[i]
       /\ ret'.op = "Write" =>
            /\ UNCHANGED machine
            /\ History' = History]_vars

\* The caller has overwritten a record of the copy it holds.
C18_Witness ==
    /\ ret.op = "Write"
    /\ Len(cpy) = Len(hist) /\ Len(hist) > 0
    /\ cpy[1] # hist[1]
    /\ \A i \in 2..Len(hist) : cpy[i] = hist[i]

C20_GetTransition ==
    [][\A s \in StateIds, e \in EventIds :
        (ret'.op = "GetTransition" /\ ret'.s = s /\ ret'.e = e) =>
            /\ ret'.err = NoErr
            /\ UNCHANGED machine
            /\ IF s \in DOMAIN States
               THEN IF e \in DOMAIN States[s]
                    THEN ret'.val = States[s][e]
                    ELSE ret'.val = NilTransition
               ELSE ret'.val = NilTransition]_vars

\* A lookup that found nothing under a state that is a key.
C20_Witness ==
    /\ ret.op = "GetTransition"
    /\ ret.s \in DOMAIN States
    /\ ret.e \notin DOMAIN States[ret.s]
    /\ ret.val = NilTransition

\* The elements of a sequence.
Range(q) == {q[i] : i \in DOMAIN q}

NoRepeat(q) == \A i, j \in DOMAIN q : q[i] = q[j] => i = j

\* C21: GetEventsForState(s) returns, each once and in any order, the events
\* that have an entry under s, among them every event with a transition from
\* s; it returns the empty sequence when s is not a key or has no entries.
C21_GetEventsForState ==
    [][\A s \in StateIds :
        (ret'.op = "GetEventsForState" /\ ret'.s = s) =>
            /\ ret'.err = NoErr
            /\ UNCHANGED machine
            /\ NoRepeat(ret'.val)
            /\ Range(ret'.val) = IF s \in DOMAIN States THEN DOMAIN States[s] ELSE {}
            /\ \A e \in EventIds : Defined(s, e) => e \in Range(ret'.val)]_vars

\* Two events, returned in descending order.
C21_Witness ==
    /\ ret.op = "GetEventsForState"
    /\ Len(ret.val) = 2
    /\ ret.val[1] > ret.val[2]
    /\ Defined(ret.s, ret.val[1])

\* C22: GetStatesForEvent(e) returns, each once, the states that have an
\* entry for e, among them every state from which e has a transition; it
\* returns the empty sequence when the table is empty or no state has e.
C22_GetStatesForEvent ==
    [][\A e \in EventIds :
        (ret'.op = "GetStatesForEvent" /\ ret'.e = e) =>
            /\ ret'.err = NoErr
            /\ UNCHANGED machine
            /\ NoRepeat(ret'.val)
            /\ Range(ret'.val) = {s \in DOMAIN States : e \in DOMAIN States[s]}
            /\ \A s \in StateIds : Defined(s, e) => s \in Range(ret'.val)]_vars

\* Two states have the event, returned in descending order.
C22_Witness ==
    /\ ret.op = "GetStatesForEvent"
    /\ Len(ret.val) = 2
    /\ ret.val[1] > ret.val[2]
    /\ \A i \in 1..2 : Defined(ret.val[i], ret.e)

\* C24: start reports the outcome of the first failing check in the order:
\* empty table (MissingStates), state not a key (StateNotDefined), machine
\* stopped (MachineStopped), machine started (MachineStarted); when no check
\* fails it succeeds.
C24_StartOrder ==
    [][\A s \in StateIds :
        (ret'.op = "Start" /\ ret'.s = s) =>
            /\ DOMAIN States = {} => ret'.err = ErrMissingStates
            /\ (DOMAIN States # {} /\ s \notin DOMAIN States) =>
                   ret'.err = ErrStateNotDefined(s)
            /\ (s \in DOMAIN States /\ done) => ret'.err = ErrMachineStopped(endevt)
            /\ (s \in DOMAIN States /\ ~done /\ started) => ret'.err = ErrMachineStarted
            /\ (s \in DOMAIN States /\ ~done /\ ~started) =>
                   (ret'.err = NoErr /\ started' /\ curr' = s)]_vars

\* Start of the state a running machine was started with.
C24_Witness ==
    /\ ret.op = "Start" /\ ret.err = ErrMachineStarted
    /\ Running
    /\ ret.s \in DOMAIN States
    /\ ret.s = initial /\ hist = <<>>

\* The To state of the transition a history record names.
ToOf(r) == GetTransition(States, r.State, r.Event).To

Reported(s) == UNION {Range(r) : r \in GetEventsForState(States, s)}

\* C26 as stated: on a running machine, a send of an event that
\* GetEventsForState reports for the current state does not fail with
\* MissingTransition.
C26_ReportedIsAccepted ==
    [][\A e \in EventIds :
        (Running /\ e \in Reported(Current) /\ ret'.op = "Send" /\ ret'.e = e) =>
            ret'.err.type # "ErrMissingTransition"]_vars

\* C26 amended: on a running machine, a send of an event fails with
\* MissingTransition exactly when GetEventsForState does not report the event
\* for the current state or the entry of the table for it is nil.
C26_ReportedAndNotNil ==
    [][\A e \in EventIds :
        (Running /\ ret'.op = "Send" /\ ret'.e = e) =>
            (ret'.err.type = "ErrMissingTransition") =
                ~(e \in Reported(Current) /\ ~States[Current][e].null)]_vars

\* An accepted event in a state where another reported event has a nil entry.
C26_Witness ==
    /\ ret.op = "Send" /\ ret.err = NoErr /\ ret.guard = "true"
    /\ Len(hist) = 1
    /\ ret.e \in Reported(hist[1].State)
    /\ \E e \in Reported(hist[1].State) : States[hist[1].State][e].null

\* C27: a write of the caller through the terminal event of a MachineStopped
\* error changes neither what history() returns nor the terminal event that
\* later MachineStopped errors carry.
C27_ErrorEventIndependent ==
    [][ret'.op = "WriteEvent" =>
        /\ History' = History
        /\ Deref(hist', endevt') = Deref(hist, endevt)]_vars

\* The record of the send of goroutine p is the last one of the log h.
Appended(p, h) ==
    h = Append(loc[p].h, HistoryRecord(loc[p].currstate, loc[p].e))

\* The hooks that the send of goroutine p has invoked so far.
Hooks(l) == SelectSeq(l.calls, LAMBDA c : c.fn # "Guard")

\* C23: within a send whose guard passes, the record is appended first, then
\* the current state is set to To, then onSuccess is invoked with the state
\* that was left, and the machine is stopped, if the transition is final,
\* only after onSuccess has returned; while onSuccess runs, current() equals
\* To, history() ends with the new record and the machine is not stopped.
C23_OrderInSend ==
    [][\A p \in Procs :
        LET l == loc[p] IN
        /\ (pc[p] = "writehist" /\ pc'[p] = "setcurr") =>
               /\ Appended(p, hist')
               /\ curr' = l.currstate
               /\ Hooks(loc'[p]) = <<>>
               /\ ~done'
        /\ (pc[p] = "setcurr" /\ pc'[p] = "success") =>
               /\ Appended(p, hist)
               /\ hist' = hist
               /\ curr' = l.tran.To
               /\ Hooks(loc'[p]) = <<>>
               /\ ~done'
        /\ (pc[p] = "success" /\ pc'[p] = "inSuccess") =>
               Hooks(loc'[p]) = <<Call("OnSuccess", l.currstate, l.e)>>
        /\ pc[p] = "inSuccess" =>
               /\ Current = l.tran.To
               /\ Appended(p, History)
               /\ ~done
        /\ (pc[p] = "final" /\ pc'[p] = "idle") =>
               /\ ~done
               /\ done' = l.tran.IsFinal
               /\ curr' = l.tran.To
               /\ Appended(p, hist')]_vars

\* onSuccess of a final transition is running.
C23_Witness ==
    /\ pc[1] = "inSuccess"
    /\ loc[1].tran.IsFinal
    /\ loc[1].currstate # loc[1].tran.To
    /\ curr = loc[1].tran.To
    /\ Len(hist) > Len(loc[1].h)
    /\ ~done

\* C28: Send is not synchronised.  As long as no two sends have overlapped,
\* between the calls the log starts at the initial state, every record leaves
\* the state its predecessor led to, and the current state is the replay of
\* the log; two sends interleaved at their reads and writes of the current
\* state and of the log reach a state where that fails.
C28_SequentialReplay ==
    (AllIdle /\ ~raced) =>
        /\ hist # <<>> => hist[1].State = initial
        /\ \A i \in 2..Len(hist) : hist[i].State = ToOf(hist[i - 1])
        /\ curr = IF hist = <<>> THEN initial ELSE ToOf(hist[Len(hist)])

\* After two overlapping sends on a running machine: two records leave the
\* same state although the first transition moved the machine, and the
\* current state is not the replay of the log.
C28_Witness ==
    /\ AllIdle /\ raced
    /\ started
    /\ Len(hist) = 2
    /\ hist[1].State = hist[2].State
    /\ ToOf(hist[1]) # hist[1].State
    /\ curr # ToOf(hist[2])

====
